---- MODULE Spec2Model ----
(***************************************************************************)
(* A model of two OpenSSL cores:                                           *)
(*   - AES-SIV-128 (crypto/modes/siv128.c): the SIV128_CONTEXT state       *)
(*     machine, S2V and the GF(2^128) doubling;                            *)
(*   - KMAC128/KMAC256 (providers/common/macs/kmac_prov.c): the kmac       *)
(*     context, its parameter setter and the SP 800-185 encoders.          *)
(* Byte strings are sequences of 0..255.  A 64-bit word is the sequence of *)
(* its eight base-256 digits, most significant first.  The CMAC, CTR and   *)
(* sponge primitives are outside the two files: CMAC and CTR are           *)
(* deterministic stand-ins, the sponge is the string of bytes it absorbed. *)
(***************************************************************************)
EXTENDS Integers, Sequences, FiniteSets, TLC

(***************************************************************************)
(* Bytes                                                                   *)
(***************************************************************************)
RECURSIVE XorNat(_, _, _)
XorNat(a, b, n) ==
    IF n = 0 THEN 0
    ELSE ((a + b) % 2) + 2 * XorNat(a \div 2, b \div 2, n - 1)

Xor4 == [a \in 0..15 |-> [b \in 0..15 |-> XorNat(a, b, 4)]]

XorByte(a, b) == 16 * Xor4[a \div 16][b \div 16] + Xor4[a % 16][b % 16]

Fill(n, v) == [i \in 1..n |-> v]

Pat(n, s) == [i \in 1..n |-> (i * 15 + s) % 256]

Rev(w) == [i \in 1..Len(w) |-> w[Len(w) + 1 - i]]

(***************************************************************************)
(* siv128.c: words, doubling, xor                                          *)
(***************************************************************************)
SIV_LEN == 16

rotl8(x) == <<x[2], x[3], x[4], x[1]>>

rotr8(x) == <<x[4], x[1], x[2], x[3]>>

\* x & 0x00ff00ff and x & 0xff00ff00 on the four digits of a 32-bit value
And00ff00ff(x) == <<0, x[2], 0, x[4]>>

Andff00ff00(x) == <<x[1], 0, x[3], 0>>

Or32(x, y) == [i \in 1..4 |-> IF x[i] = 0 THEN y[i] ELSE x[i]]

byteswap8(x) ==
    LET high0 == SubSeq(x, 1, 4)
        low0  == SubSeq(x, 5, 8)
        high  == Or32(And00ff00ff(rotl8(high0)), Andff00ff00(rotr8(high0)))
        low   == Or32(And00ff00ff(rotl8(low0)), Andff00ff00(rotr8(low0)))
    IN  low \o high

\* b->word[i] as the host reads it: the eight bytes at offset 8*i, taken as
\* a little-endian or a big-endian number
LoadWord(b, i, le) ==
    LET m == SubSeq(b, 8 * i + 1, 8 * i + 8) IN IF le THEN Rev(m) ELSE m

StoreWord(b, i, x, le) ==
    LET m == IF le THEN Rev(x) ELSE x
    IN  [j \in 1..Len(b) |-> IF j > 8 * i /\ j <= 8 * i + 8 THEN m[j - 8 * i] ELSE b[j]]

siv128_getword(b, i, le) ==
    IF le THEN byteswap8(LoadWord(b, i, le)) ELSE LoadWord(b, i, le)

siv128_putword(b, i, x, le) ==
    IF le THEN StoreWord(b, i, byteswap8(x), le) ELSE StoreWord(b, i, x, le)

siv128_xorblock(x, y) == [i \in 1..SIV_LEN |-> XorByte(x[i], y[i])]

\* (w << 1) on a 64-bit word
Shl1(w) == [i \in 1..8 |-> ((2 * w[i]) % 256) + (IF i < 8 THEN w[i + 1] \div 128 ELSE 0)]

\* a doubling that drops the carry out of the low word
dbl_without_carry(b, le) ==
    LET high     == siv128_getword(b, 0, le)
        low      == siv128_getword(b, 1, le)
        low_mask == IF high[1] \div 128 = 1 THEN 135 ELSE 0
        low2     == [i \in 1..8 |-> IF i = 8 THEN XorByte(Shl1(low)[i], low_mask)
                                   ELSE Shl1(low)[i]]
    IN  siv128_putword(siv128_putword(b, 0, Shl1(high), le), 1, low2, le)

siv128_dbl(b, le) ==
    LET high       == siv128_getword(b, 0, le)
        low        == siv128_getword(b, 1, le)
        high_carry == high[1] \div 128
        low_carry  == low[1] \div 128
        low_mask   == IF high_carry = 1 THEN 135 ELSE 0
        high_mask  == low_carry
        high2      == [i \in 1..8 |-> IF i = 8 THEN Shl1(high)[i] + high_mask
                                     ELSE Shl1(high)[i]]
        low2       == [i \in 1..8 |-> IF i = 8 THEN XorByte(Shl1(low)[i], low_mask)
                                     ELSE Shl1(low)[i]]
    IN  siv128_putword(siv128_putword(b, 0, high2, le), 1, low2, le)

(***************************************************************************)
(* The primitives siv128.c calls: CMAC (EVP_MAC) and AES-CTR (EVP_Cipher). *)
(* Deterministic stand-ins keyed by a key number.                          *)
(***************************************************************************)
RECURSIVE MacFold(_, _, _)
MacFold(msg, i, acc) ==
    IF i > Len(msg) THEN acc
    ELSE MacFold(msg, i + 1, (acc * 31 + msg[i] + 1) % 8191)

CMAC(k, msg) ==
    LET a == MacFold(msg, 1, 17 * k + 5)
    IN  [i \in 1..SIV_LEN |-> (a * (2 * i + 1) + 29 * i + k) % 256]

CTR(k, iv, in) ==
    LET a == MacFold(iv, 1, 11 * k + 3)
    IN  [i \in 1..Len(in) |-> XorByte(in[i], (a * (i + 2) + 7 * i) % 256)]

(***************************************************************************)
(* Bounds and inputs of the SIV model                                      *)
(***************************************************************************)
\* calls per run of the free-running SIV machine
MaxOps == 3

\* AAD segments per context in the round-trip runs
MaxAad == 2

Ctx == {1, 2}

Keys == {1, 2}

ZeroBlock == Fill(SIV_LEN, 0)

\* what a context's tag may hold before anything wrote it (malloc'ed memory)
UninitTags == {ZeroBlock, Fill(SIV_LEN, 205)}

\* a tag that differs from t in the lowest bit of its last byte, and a tag
\* of 15 bytes
Forge(t) == [i \in 1..Len(t) |-> IF i = SIV_LEN THEN XorByte(t[i], 1) ELSE t[i]]

ShortTag == Fill(SIV_LEN - 1, 170)

Plains == {<<>>, Pat(15, 1), Pat(17, 3)}

Aads == {<<>>, <<16, 17, 18>>}

RECURSIVE SeqsUpTo(_, _)
SeqsUpTo(S, n) ==
    IF n = 0 THEN {<<>>}
    ELSE LET R == SeqsUpTo(S, n - 1)
         IN  R \cup {Append(r, x) : r \in {q \in R : Len(q) = n - 1}, x \in S}

VARIABLES
    siv,      \* siv[c]: the SIV128_CONTEXT c
    little,   \* the host is little-endian (is_endian.little)
    out,      \* the caller's output buffer of the last encrypt/decrypt
    tagbuf,   \* the caller's buffer get_tag wrote last
    last,     \* the last call, see Call
    hist,     \* hist[c]: what happened to context c since its last init
    nops,     \* calls made
    rt,       \* the round-trip run: [pc, aads, P, i]
    cp,       \* a context and the one copy_ctx copies into it, see InitCopy
    kctx,     \* the kmac_data_st
    md_ctx,   \* kctx->ctx, the EVP_MD_CTX
    mac,      \* what the last final gave its caller
    klast,    \* the last KMAC call
    kg,       \* the history of the KMAC context, see FreshKg
    kops,     \* KMAC calls made
    fork,     \* a kmac context and its kmac_dup copy, see InitDup
    calc      \* a helper function, its input and what it gave, see InitDbl

sivvars == <<siv, little, out, tagbuf, last, hist, nops, rt, cp>>

kmacvars == <<kctx, md_ctx, mac, klast, kg, kops, fork>>

vars == <<sivvars, kmacvars, calc>>

\* cipher_ctx and mac_ctx_init are 0 (NULL or freed) or the number of the
\* key they are keyed with
Live(s) == s.cipher_ctx # 0 /\ s.mac_ctx_init # 0

Success == 0

Undecided == -1

(***************************************************************************)
(* siv128.c: the handlers, as functions of the context and the inputs.     *)
(* fail names the primitive call that fails in this call, "none" if none:  *)
(* "dup" EVP_MAC_CTX_dup, "mac" EVP_MAC_update/EVP_MAC_final, "ctr"        *)
(* EVP_CipherInit_ex/EVP_EncryptUpdate.                                    *)
(***************************************************************************)
siv128_do_s2v_p(s, in, fail, le) ==
    LET len == Len(in) IN
    IF fail = "dup" THEN [ret |-> 0, q |-> ZeroBlock, d |-> s.d]
    ELSE IF len >= SIV_LEN
    THEN LET t == siv128_xorblock(SubSeq(in, len - SIV_LEN + 1, len), s.d)
         IN  IF fail = "mac" THEN [ret |-> 0, q |-> ZeroBlock, d |-> s.d]
             ELSE [ret |-> 1,
                   q   |-> CMAC(s.mac_ctx_init, SubSeq(in, 1, len - SIV_LEN) \o t),
                   d   |-> s.d]
    ELSE LET t0 == [i \in 1..SIV_LEN |->
                      IF i <= len THEN in[i] ELSE IF i = len + 1 THEN 128 ELSE 0]
             d2 == siv128_dbl(s.d, le)
             t  == siv128_xorblock(t0, d2)
         IN  IF fail = "mac" THEN [ret |-> 0, q |-> ZeroBlock, d |-> d2]
             ELSE [ret |-> 1, q |-> CMAC(s.mac_ctx_init, t), d |-> d2]

\* a masking that clears the top bit of byte 8 only
clear_byte8_only(q) == [i \in 1..SIV_LEN |-> IF i = 9 THEN q[i] % 128 ELSE q[i]]

\* q.byte[8] &= 0x7f; q.byte[12] &= 0x7f
ClearCounterBits(q) == [i \in 1..SIV_LEN |-> IF i \in {9, 13} THEN q[i] % 128 ELSE q[i]]

siv128_do_encrypt(k, in, icv) == CTR(k, icv, in)

OPENSSL_cleanse(buf) == Fill(Len(buf), 0)

\* a budget check that only stops a negative counter
BudgetSpent_negative(s) == s.crypto_ok < 0

\* the one-shot budget check of encrypt and decrypt
BudgetSpent(s) == s.crypto_ok = 0

\* an init that leaves final_ret as it finds it
init_keeps_final_ret(s, k, fail) ==
    IF fail # "none"
    THEN [s   |-> [s EXCEPT !.d = ZeroBlock, !.cipher_ctx = 0, !.mac_ctx_init = 0],
          ret |-> 0]
    ELSE [s   |-> [s EXCEPT !.d = CMAC(k, ZeroBlock), !.cipher_ctx = k,
                            !.mac_ctx_init = k, !.crypto_ok = 1],
          ret |-> 1]

CRYPTO_siv128_init(s, k, fail) ==
    IF fail # "none"
    THEN [s   |-> [s EXCEPT !.d = ZeroBlock, !.cipher_ctx = 0, !.mac_ctx_init = 0],
          ret |-> 0]
    ELSE [s   |-> [s EXCEPT !.d = CMAC(k, ZeroBlock), !.cipher_ctx = k,
                            !.mac_ctx_init = k, !.final_ret = -1, !.crypto_ok = 1],
          ret |-> 1]

CRYPTO_siv128_copy_ctx(dest, src, fail) ==
    IF fail = "ctr" THEN [s |-> [dest EXCEPT !.d = src.d], ret |-> 0]
    ELSE IF fail = "dup"
    THEN [s   |-> [dest EXCEPT !.d = src.d, !.cipher_ctx = src.cipher_ctx,
                               !.mac_ctx_init = 0],
          ret |-> 0]
    ELSE [s   |-> [dest EXCEPT !.d = src.d, !.cipher_ctx = src.cipher_ctx,
                               !.mac_ctx_init = src.mac_ctx_init],
          ret |-> 1]

\* an aad that consults the one-shot budget
aad_budget_checked(s, aad, fail, le) ==
    LET d2 == siv128_dbl(s.d, le) IN
    IF s.crypto_ok = 0 THEN [s |-> s, ret |-> 0]
    ELSE IF fail # "none" THEN [s |-> [s EXCEPT !.d = d2], ret |-> 0]
    ELSE [s   |-> [s EXCEPT !.d = siv128_xorblock(d2, CMAC(s.mac_ctx_init, aad))],
          ret |-> 1]

\* an aad that xors the CMAC of the segment into D without doubling D first
aad_without_dbl(s, aad, fail, le) ==
    IF fail # "none" THEN [s |-> s, ret |-> 0]
    ELSE [s   |-> [s EXCEPT !.d = siv128_xorblock(s.d, CMAC(s.mac_ctx_init, aad))],
          ret |-> 1]

CRYPTO_siv128_aad(s, aad, fail, le) ==
    LET d2 == siv128_dbl(s.d, le) IN
    IF fail # "none" THEN [s |-> [s EXCEPT !.d = d2], ret |-> 0]
    ELSE [s   |-> [s EXCEPT !.d = siv128_xorblock(d2, CMAC(s.mac_ctx_init, aad))],
          ret |-> 1]

\* an encrypt that does not take its call off the budget
encrypt_keeps_budget(s, in, o, fail, le) ==
    IF BudgetSpent(s) THEN [s |-> s, out |-> o, ret |-> 0, done |-> FALSE]
    ELSE
    LET r  == siv128_do_s2v_p(s, in, fail, le)
        s2 == [s EXCEPT !.d = r.d]
        s3 == [s2 EXCEPT !.tag = r.q]
    IN  IF r.ret = 0 THEN [s |-> s2, out |-> o, ret |-> 0, done |-> FALSE]
        ELSE IF fail = "ctr" THEN [s |-> s3, out |-> o, ret |-> 0, done |-> FALSE]
        ELSE [s    |-> [s3 EXCEPT !.final_ret = 0],
              out  |-> siv128_do_encrypt(s.cipher_ctx, in, ClearCounterBits(r.q)),
              ret  |-> Len(in),
              done |-> TRUE]

CRYPTO_siv128_encrypt(s, in, o, fail, le) ==
    IF BudgetSpent(s) THEN [s |-> s, out |-> o, ret |-> 0, done |-> FALSE]
    ELSE
    LET s1 == [s EXCEPT !.crypto_ok = @ - 1]
        r  == siv128_do_s2v_p(s1, in, fail, le)
        s2 == [s1 EXCEPT !.d = r.d]
        s3 == [s2 EXCEPT !.tag = r.q]
    IN  IF r.ret = 0 THEN [s |-> s2, out |-> o, ret |-> 0, done |-> FALSE]
        ELSE IF fail = "ctr" THEN [s |-> s3, out |-> o, ret |-> 0, done |-> FALSE]
        ELSE [s    |-> [s3 EXCEPT !.final_ret = 0],
              out  |-> siv128_do_encrypt(s.cipher_ctx, in, ClearCounterBits(r.q)),
              ret  |-> Len(in),
              done |-> TRUE]

\* a decrypt that returns on a tag mismatch without scrubbing the buffer
decrypt_no_scrub(s, in, o, fail, le) ==
    IF BudgetSpent(s) THEN [s |-> s, out |-> o, ret |-> 0, done |-> FALSE]
    ELSE
    LET s1   == [s EXCEPT !.crypto_ok = @ - 1]
        cand == siv128_do_encrypt(s.cipher_ctx, in, ClearCounterBits(s.tag))
        r    == siv128_do_s2v_p(s1, cand, fail, le)
        s2   == [s1 EXCEPT !.d = r.d]
        t    == siv128_xorblock(r.q, s.tag)
    IN  IF fail = "ctr" THEN [s |-> s1, out |-> o, ret |-> 0, done |-> FALSE]
        ELSE IF r.ret = 0 THEN [s |-> s2, out |-> cand, ret |-> 0, done |-> FALSE]
        ELSE IF t # ZeroBlock
        THEN [s |-> s2, out |-> cand, ret |-> 0, done |-> FALSE]
        ELSE [s |-> [s2 EXCEPT !.final_ret = 0], out |-> cand, ret |-> Len(in),
              done |-> TRUE]

CRYPTO_siv128_decrypt(s, in, o, fail, le) ==
    IF BudgetSpent(s) THEN [s |-> s, out |-> o, ret |-> 0, done |-> FALSE]
    ELSE
    LET s1   == [s EXCEPT !.crypto_ok = @ - 1]
        cand == siv128_do_encrypt(s.cipher_ctx, in, ClearCounterBits(s.tag))
        r    == siv128_do_s2v_p(s1, cand, fail, le)
        s2   == [s1 EXCEPT !.d = r.d]
        t    == siv128_xorblock(r.q, s.tag)
    IN  IF fail = "ctr" THEN [s |-> s1, out |-> o, ret |-> 0, done |-> FALSE]
        ELSE IF r.ret = 0 THEN [s |-> s2, out |-> cand, ret |-> 0, done |-> FALSE]
        ELSE IF t # ZeroBlock
        THEN [s |-> s2, out |-> OPENSSL_cleanse(cand), ret |-> 0, done |-> FALSE]
        ELSE [s |-> [s2 EXCEPT !.final_ret = 0], out |-> cand, ret |-> Len(in),
              done |-> TRUE]

CRYPTO_siv128_finish(s) == s.final_ret

CRYPTO_siv128_set_tag(s, tag) ==
    IF Len(tag) # SIV_LEN THEN [s |-> s, ret |-> 0]
    ELSE [s |-> [s EXCEPT !.tag = tag], ret |-> 1]

CRYPTO_siv128_get_tag(s, buf, len) ==
    IF len # SIV_LEN THEN [buf |-> buf, ret |-> 0]
    ELSE [buf |-> s.tag, ret |-> 1]

CRYPTO_siv128_cleanup(s) ==
    [s EXCEPT !.cipher_ctx = 0, !.mac_ctx_init = 0, !.d = OPENSSL_cleanse(s.d),
              !.tag = OPENSSL_cleanse(s.tag), !.final_ret = -1, !.crypto_ok = 1]

CRYPTO_siv128_speed(s, arg) ==
    [s EXCEPT !.crypto_ok = IF arg = 1 THEN -1 ELSE 1]

(***************************************************************************)
(* kmac_prov.c: the SP 800-185 encoders and the provider's handlers.       *)
(* A kmac_data_st is a record; key and custom hold the first key_len and   *)
(* custom_len bytes of the encoded fields.  w is EVP_MD_block_size(md).    *)
(* The EVP_MD_CTX is the sequence of bytes absorbed since EVP_DigestInit,  *)
(* with st one of "fresh" (no digest yet), "absorbing", "squeezed" and     *)
(* "crashed" (the process was ended by a write outside a stack buffer).    *)
(***************************************************************************)
KMAC_MAX_BLOCKSIZE == 168

KMAC_MIN_BLOCKSIZE == 136

KMAC_MAX_ENCODED_HEADER_LEN == 3

KMAC_MAX_CUSTOM == 127

KMAC_MAX_KEY == 255

SizeofSizeT == 8

kmac_string == <<1, 32, 75, 77, 65, 67>>

\* EVP_MD_size of KECCAK_KMAC128 and KECCAK_KMAC256
EVP_MD_size(w) == IF w = KMAC_MAX_BLOCKSIZE THEN 32 ELSE 64

RECURSIVE EncodeSizeLoop(_, _)
EncodeSizeLoop(bits, cnt) ==
    IF bits # 0 /\ cnt < SizeofSizeT
    THEN EncodeSizeLoop(bits \div 256, cnt + 1)
    ELSE cnt

\* a size that is one byte whatever the number
encode_size_one(bits) == 1

get_encode_size(bits) ==
    LET cnt == EncodeSizeLoop(bits, 0) IN IF cnt = 0 THEN 1 ELSE cnt

RECURSIVE Shr8(_, _)
Shr8(bits, n) == IF n = 0 THEN bits ELSE Shr8(bits \div 256, n - 1)

\* the bytes right_encode stores at out[0..len], whatever room out has
right_encode(bits) ==
    LET len == get_encode_size(bits) IN
    [ret     |-> 1,
     out     |-> [i \in 1..(len + 1) |->
                     IF i <= len THEN Shr8(bits, len - i) % 256 ELSE len],
     out_len |-> len + 1]

encode_string(in) ==
    LET bits == 8 * Len(in)
        len  == get_encode_size(bits)
    IN  [ret     |-> 1,
         out     |-> <<len>> \o [i \in 1..len |-> Shr8(bits, len - i) % 256] \o in,
         out_len |-> 1 + len + Len(in)]

\* a pad size that is always past the data
RECURSIVE PadSize_past(_, _, _)
PadSize_past(len, sz, w) == IF len >= sz THEN PadSize_past(len, sz + w, w) ELSE sz

RECURSIVE PadSize(_, _, _)
PadSize(len, sz, w) == IF len > sz THEN PadSize(len, sz + w, w) ELSE sz

\* the bytes bytepad stores at out[0..sz-1], whatever room out has
bytepad(in1, in2, w) ==
    LET body == <<1, w>> \o in1 \o in2
        sz   == PadSize(Len(body), w, w)
    IN  [ret |-> 1, out |-> body \o Fill(sz - Len(body), 0), out_len |-> sz]

kmac_bytepad_encode_key(in, w) == bytepad(encode_string(in).out, <<>>, w)

kmac_new(w) ==
    [w |-> w, out_len |-> EVP_MD_size(w), key_len |-> 0, custom_len |-> 0,
     xof_mode |-> 0, key |-> <<>>, custom |-> <<>>]

FreshMd == [st |-> "fresh", absorbed |-> <<>>]

\* an OSSL_PARAM array: has names the parameters it carries
NoParams == [has |-> {}, xof |-> 0, outlen |-> 0, key |-> <<>>, custom |-> <<>>]

KeyBad(p) == "key" \in p.has /\ (Len(p.key) < 4 \/ Len(p.key) > KMAC_MAX_KEY)

CustomBad(p) == "custom" \in p.has /\ Len(p.custom) > KMAC_MAX_CUSTOM



\* xof, then outlen/size, then key, then custom; the first one that is
\* rejected returns 0 with the earlier ones stored
kmac_set_ctx_params(k, p) ==
    LET ek == kmac_bytepad_encode_key(p.key, k.w)
        ec == encode_string(p.custom)
        k1 == IF "xof" \in p.has THEN [k EXCEPT !.xof_mode = p.xof] ELSE k
        k2 == IF "outlen" \in p.has THEN [k1 EXCEPT !.out_len = p.outlen] ELSE k1
        k3 == IF "key" \in p.has
              THEN [k2 EXCEPT !.key = ek.out, !.key_len = ek.out_len] ELSE k2
        k4 == IF "custom" \in p.has
              THEN [k3 EXCEPT !.custom = ec.out, !.custom_len = ec.out_len] ELSE k3
    IN  IF KeyBad(p) THEN [k |-> k2, ret |-> 0]
        ELSE IF CustomBad(p) THEN [k |-> k3, ret |-> 0]
        ELSE [k |-> k4, ret |-> 1]

\* What a read of a stack buffer gives after a write past its end: the
\* bytes written ("kept"), other bytes past the end ("clobbered"), or
\* nothing, the process having been ended ("abort").
Outcomes == {"kept", "clobbered", "abort"}

ReadBack(written, room, ub) ==
    IF ub = "kept" \/ Len(written) <= room THEN written
    ELSE SubSeq(written, 1, room) \o
         [i \in 1..(Len(written) - room) |-> (written[room + i] + 165) % 256]

\* an init that does not look at key_len
init_without_key_check(k, md, ub) ==
    LET k1 == IF k.custom_len = 0
              THEN kmac_set_ctx_params(k, [NoParams EXCEPT !.has = {"custom"}]).k
              ELSE k
        bp == bytepad(kmac_string, k1.custom, k1.w)
    IN  IF bp.out_len > KMAC_MAX_BLOCKSIZE /\ ub = "abort"
        THEN [k |-> k1, md |-> [st |-> "crashed", absorbed |-> <<>>], ret |-> 0]
        ELSE [k   |-> k1,
              md  |-> [st       |-> "absorbing",
                       absorbed |-> ReadBack(bp.out, KMAC_MAX_BLOCKSIZE, ub) \o k1.key],
              ret |-> 1]

\* out[KMAC_MAX_BLOCKSIZE] is the local buffer bytepad writes; EVP_DigestInit_ex
\* and EVP_DigestUpdate are taken to succeed
kmac_init(k, md, ub) ==
    IF k.key_len = 0 THEN [k |-> k, md |-> md, ret |-> 0]
    ELSE
    LET k1 == IF k.custom_len = 0
              THEN kmac_set_ctx_params(k, [NoParams EXCEPT !.has = {"custom"}]).k
              ELSE k
        bp == bytepad(kmac_string, k1.custom, k1.w)
    IN  IF bp.out_len > KMAC_MAX_BLOCKSIZE /\ ub = "abort"
        THEN [k |-> k1, md |-> [st |-> "crashed", absorbed |-> <<>>], ret |-> 0]
        ELSE [k   |-> k1,
              md  |-> [st       |-> "absorbing",
                       absorbed |-> ReadBack(bp.out, KMAC_MAX_BLOCKSIZE, ub) \o k1.key],
              ret |-> 1]

kmac_update(md, data) == [md |-> [md EXCEPT !.absorbed = @ \o data], ret |-> 1]

\* encoded_outlen[KMAC_MAX_ENCODED_HEADER_LEN] is the local buffer right_encode
\* writes; the output is the squeeze of out_len bytes from what was absorbed
kmac_final(k, md, ub) ==
    LET lbits == IF k.xof_mode # 0 THEN 0 ELSE k.out_len * 8
        enc   == right_encode(lbits)
        all   == md.absorbed \o ReadBack(enc.out, KMAC_MAX_ENCODED_HEADER_LEN, ub)
    IN  IF enc.out_len > KMAC_MAX_ENCODED_HEADER_LEN /\ ub = "abort"
        THEN [md |-> [st |-> "crashed", absorbed |-> <<>>], out |-> <<>>,
              written |-> 0, outl |-> 0, ret |-> 0]
        ELSE [md      |-> [st |-> "squeezed", absorbed |-> all],
              out     |-> all,
              written |-> k.out_len,
              outl    |-> k.out_len,
              ret     |-> 1]

\* a dup that leaves the copy with the EVP_MD_CTX kmac_new made
dup_fresh_sponge(src, src_md, fail) ==
    IF fail THEN [ret |-> 0, k |-> kmac_new(src.w), md |-> FreshMd]
    ELSE [ret |-> 1,
          k   |-> [kmac_new(src.w) EXCEPT
                     !.out_len = src.out_len, !.key_len = src.key_len,
                     !.custom_len = src.custom_len, !.xof_mode = src.xof_mode,
                     !.key = SubSeq(src.key, 1, src.key_len),
                     !.custom = SubSeq(src.custom, 1, src.custom_len)],
          md  |-> FreshMd]

\* EVP_MD_CTX_copy copies the sponge of src into the EVP_MD_CTX kmac_new
\* made for dst; fail: it, or EVP_MD_up_ref, fails and kmac_dup returns NULL
kmac_dup(src, src_md, fail) ==
    IF fail THEN [ret |-> 0, k |-> kmac_new(src.w), md |-> FreshMd]
    ELSE [ret |-> 1,
          k   |-> [kmac_new(src.w) EXCEPT
                     !.out_len = src.out_len, !.key_len = src.key_len,
                     !.custom_len = src.custom_len, !.xof_mode = src.xof_mode,
                     !.key = SubSeq(src.key, 1, src.key_len),
                     !.custom = SubSeq(src.custom, 1, src.custom_len)],
          md  |-> src_md]

(***************************************************************************)
(* The SIV state machine: one action per public function of siv128.c.      *)
(* A call that would hand a NULL or freed cipher_ctx/mac_ctx_init to a     *)
(* primitive dereferences it and ends the process: it has no successor.    *)
(* hist[c] records, since the last successful init of c: called, an        *)
(* encrypt or decrypt call was made; reset, cleanup or speed was called;    *)
(* okSince, an encrypt or decrypt call ran to its end.                     *)
(***************************************************************************)
FreshHist == [called |-> FALSE, reset |-> FALSE, okSince |-> FALSE]

\* an encrypt or decrypt call was made since the last successful init, and
\* neither cleanup nor speed was called since that init
Spent(h) == h.called /\ ~h.reset

\* CRYPTO_siv128_new: malloc and a successful init
NewCtx(k, t) ==
    [CRYPTO_siv128_init([d |-> ZeroBlock, tag |-> t, final_ret |-> 0, crypto_ok |-> 0,
                         cipher_ctx |-> 0, mac_ctx_init |-> 0], k, "none").s
       EXCEPT !.tag = t]

NoCall == [op |-> "new", c |-> 0, inp |-> <<>>, fail |-> "none", ret |-> 1,
           done |-> FALSE, called |-> FALSE, spent |-> FALSE, ran |-> FALSE]

NoCp == [pc |-> "off"]

NoRt == [pc |-> "off", aads |-> <<>>, P |-> <<>>, i |-> 0]

\* kg records: keySet, set_ctx_params stored a key (one that passed its length
\* check); keyRejected, it rejected one for its length; K and S, the key and
\* the customization string stored last (S empty if none was); initK and
\* initS, K and S at the last init that returned 1; msg, the data of the
\* updates since; inBounds, no stack buffer was overrun since that init.
FreshKg == [keySet |-> FALSE, keyRejected |-> FALSE, K |-> <<>>, S |-> <<>>,
            initK |-> <<>>, initS |-> <<>>, msg |-> <<>>, nupd |-> 0,
            inBounds |-> TRUE]

NoMac == [out |-> <<>>, written |-> 0, outl |-> 0]

NoFork == [pc |-> "off"]

NoCalc == [fn |-> "off"]

NoKCall == [op |-> "new", ret |-> 1, keyBad |-> FALSE, customBad |-> FALSE,
            has |-> {}, ub |-> "kept"]

\* no KMAC context is in use
KmacOff ==
    /\ kctx = kmac_new(KMAC_MAX_BLOCKSIZE)
    /\ md_ctx = FreshMd
    /\ mac = NoMac
    /\ klast = NoKCall
    /\ kg = FreshKg
    /\ kops = 0
    /\ fork = NoFork
    /\ calc = NoCalc

\* The free-running machine starts on an x86-64 build; the round-trip runs
\* (InitRT) start on either host.
InitSIV ==
    /\ \E k \in Keys, t \in UninitTags :
          siv = [c \in Ctx |-> IF c = 1 THEN NewCtx(k, t) ELSE NewCtx(2, ZeroBlock)]
    /\ little = TRUE
    /\ out = <<>>
    /\ tagbuf = ZeroBlock
    /\ last = NoCall
    /\ hist = [c \in Ctx |-> FreshHist]
    /\ nops = 0
    /\ rt = NoRt
    /\ cp = NoCp
    /\ KmacOff

\* the bookkeeping every call shares: the call, its inputs, its return value,
\* whether it ran to its last line, and what hist[c] and the budget were
\* before it
Call(op, c, inp, fail, ret, done) ==
    /\ nops' = nops + 1
    /\ last' = [op |-> op, c |-> c, inp |-> inp, fail |-> fail, ret |-> ret,
                done |-> done, called |-> hist[c].called, spent |-> Spent(hist[c]),
                ran |-> ~BudgetSpent(siv[c])]
    /\ UNCHANGED <<little, cp, kmacvars, calc>>

DoInit(c, k, fail) ==
    LET r == CRYPTO_siv128_init(siv[c], k, fail) IN
    /\ Call("init", c, <<k>>, fail, r.ret, FALSE)
    /\ siv' = [siv EXCEPT ![c] = r.s]
    /\ hist' = [hist EXCEPT ![c] = IF r.ret = 1 THEN FreshHist ELSE @]
    /\ UNCHANGED <<out, tagbuf>>

DoCopy(dst, src, fail) ==
    LET r == CRYPTO_siv128_copy_ctx(siv[dst], siv[src], fail) IN
    /\ dst # src
    /\ Live(siv[dst]) /\ Live(siv[src])
    /\ Call("copy", dst, <<src>>, fail, r.ret, FALSE)
    /\ siv' = [siv EXCEPT ![dst] = r.s]
    /\ UNCHANGED <<out, tagbuf, hist>>

DoAad(c, a, fail) ==
    LET r == CRYPTO_siv128_aad(siv[c], a, fail, little) IN
    /\ Live(siv[c])
    /\ Call("aad", c, a, fail, r.ret, FALSE)
    /\ siv' = [siv EXCEPT ![c] = r.s]
    /\ UNCHANGED <<out, tagbuf, hist>>

DoEncrypt(c, in, fail) ==
    LET r == CRYPTO_siv128_encrypt(siv[c], in, out, fail, little) IN
    /\ ~BudgetSpent(siv[c]) => Live(siv[c])
    /\ fail # "none" => ~BudgetSpent(siv[c])
    /\ Call("encrypt", c, in, fail, r.ret, r.done)
    /\ siv' = [siv EXCEPT ![c] = r.s]
    /\ out' = r.out
    /\ hist' = [hist EXCEPT ![c] = [called |-> TRUE, reset |-> hist[c].reset,
                                    okSince |-> @.okSince \/ r.done]]
    /\ UNCHANGED tagbuf

DoDecrypt(c, in, fail) ==
    LET r == CRYPTO_siv128_decrypt(siv[c], in, out, fail, little) IN
    /\ ~BudgetSpent(siv[c]) => Live(siv[c])
    /\ fail # "none" => ~BudgetSpent(siv[c])
    /\ Call("decrypt", c, in, fail, r.ret, r.done)
    /\ siv' = [siv EXCEPT ![c] = r.s]
    /\ out' = r.out
    /\ hist' = [hist EXCEPT ![c] = [called |-> TRUE, reset |-> hist[c].reset,
                                    okSince |-> @.okSince \/ r.done]]
    /\ UNCHANGED tagbuf

DoFinish(c) ==
    /\ Call("finish", c, <<>>, "none", CRYPTO_siv128_finish(siv[c]), FALSE)
    /\ UNCHANGED <<siv, out, tagbuf, hist>>

DoSetTag(c, t) ==
    LET r == CRYPTO_siv128_set_tag(siv[c], t) IN
    /\ Call("set_tag", c, t, "none", r.ret, FALSE)
    /\ siv' = [siv EXCEPT ![c] = r.s]
    /\ UNCHANGED <<out, tagbuf, hist>>

DoGetTag(c, len) ==
    LET r == CRYPTO_siv128_get_tag(siv[c], tagbuf, len) IN
    /\ Call("get_tag", c, <<len>>, "none", r.ret, FALSE)
    /\ tagbuf' = r.buf
    /\ UNCHANGED <<siv, out, hist>>

DoCleanup(c) ==
    /\ Call("cleanup", c, <<>>, "none", 1, FALSE)
    /\ siv' = [siv EXCEPT ![c] = CRYPTO_siv128_cleanup(@)]
    /\ hist' = [hist EXCEPT ![c].reset = TRUE]
    /\ UNCHANGED <<out, tagbuf>>

DoSpeed(c, arg) ==
    /\ Call("speed", c, <<arg>>, "none", 1, FALSE)
    /\ siv' = [siv EXCEPT ![c] = CRYPTO_siv128_speed(@, arg)]
    /\ hist' = [hist EXCEPT ![c].reset = TRUE]
    /\ UNCHANGED <<out, tagbuf>>

\* The free-running machine: any call, with any input of the small sets, on
\* context 1; context 2 is what copy copies from.
Free == nops < MaxOps /\ rt.pc = "off" /\ UNCHANGED rt

SivInit(c) ==
    \E k \in Keys, fail \in {"none", "mac"} :
        Free /\ (fail # "none" => k = 1) /\ DoInit(c, k, fail)

SivCopy(c) ==
    \E src \in Ctx, fail \in {"none", "ctr", "dup"} : Free /\ DoCopy(c, src, fail)

SivAad(c) ==
    \E a \in Aads, fail \in {"none", "mac"} :
        Free /\ (fail # "none" => a = <<>>) /\ DoAad(c, a, fail)

SivEncrypt(c) ==
    \E in \in Plains, fail \in {"none", "mac", "ctr"} : Free /\ DoEncrypt(c, in, fail)

SivDecrypt(c) ==
    \E in \in {out, Pat(15, 1)}, fail \in {"none", "mac", "ctr"} :
        Free /\ DoDecrypt(c, in, fail)

SivFinish(c) == Free /\ DoFinish(c)

SivSetTag(c) == \E t \in {tagbuf, Forge(tagbuf), ShortTag} : Free /\ DoSetTag(c, t)

SivGetTag(c) == \E len \in {SIV_LEN, SIV_LEN - 1} : Free /\ DoGetTag(c, len)

SivCleanup(c) == Free /\ DoCleanup(c)

SivSpeed(c) == \E arg \in {0, 1} : Free /\ DoSpeed(c, arg)

NextSIV ==
    \/ SivInit(1)
    \/ SivCopy(1)
    \/ SivAad(1)
    \/ SivEncrypt(1)
    \/ SivDecrypt(1)
    \/ SivFinish(1)
    \/ SivSetTag(1)
    \/ SivGetTag(1)
    \/ SivCleanup(1)
    \/ SivSpeed(1)

SpecSIV == InitSIV /\ [][NextSIV]_vars

(***************************************************************************)
(* The round-trip runs: context 1 absorbs rt.aads and encrypts rt.P, the   *)
(* caller reads the tag; context 2, made with the same key, absorbs the    *)
(* same segments, is given the tag and decrypts what context 1 wrote.      *)
(* No primitive fails.                                                     *)
(***************************************************************************)
InitRT ==
    /\ \E k \in Keys, t1 \in UninitTags, t2 \in UninitTags :
          siv = [c \in Ctx |-> IF c = 1 THEN NewCtx(k, t1) ELSE NewCtx(k, t2)]
    /\ little \in BOOLEAN
    /\ out = <<>>
    /\ tagbuf = ZeroBlock
    /\ last = NoCall
    /\ hist = [c \in Ctx |-> FreshHist]
    /\ nops = 0
    /\ \E as \in SeqsUpTo(Aads, MaxAad), P \in Plains \cup {Pat(16, 2)} :
          rt = [pc |-> "aad1", aads |-> as, P |-> P, i |-> 1]
    /\ cp = NoCp
    /\ KmacOff

RtAad1 ==
    /\ rt.pc = "aad1" /\ rt.i <= Len(rt.aads)
    /\ DoAad(1, rt.aads[rt.i], "none")
    /\ rt' = [rt EXCEPT !.i = @ + 1]

RtEncrypt ==
    /\ rt.pc = "aad1" /\ rt.i > Len(rt.aads)
    /\ DoEncrypt(1, rt.P, "none")
    /\ rt' = [rt EXCEPT !.pc = "get"]

RtGetTag ==
    /\ rt.pc = "get"
    /\ DoGetTag(1, SIV_LEN)
    /\ rt' = [rt EXCEPT !.pc = "aad2", !.i = 1]

RtAad2 ==
    /\ rt.pc = "aad2" /\ rt.i <= Len(rt.aads)
    /\ DoAad(2, rt.aads[rt.i], "none")
    /\ rt' = [rt EXCEPT !.i = @ + 1]

RtSetTag ==
    /\ rt.pc = "aad2" /\ rt.i > Len(rt.aads)
    /\ DoSetTag(2, tagbuf)
    /\ rt' = [rt EXCEPT !.pc = "dec"]

RtDecrypt ==
    /\ rt.pc = "dec"
    /\ DoDecrypt(2, out, "none")
    /\ rt' = [rt EXCEPT !.pc = "done"]

NextRT == RtAad1 \/ RtEncrypt \/ RtGetTag \/ RtAad2 \/ RtSetTag \/ RtDecrypt

SpecRT == InitRT /\ [][NextRT]_vars

(***************************************************************************)
(* The KMAC state machine: one action per provider function, on one        *)
(* context made by kmac128_new or kmac256_new.  update and final are       *)
(* called between an init that returned 1 and the final.                   *)
(***************************************************************************)
MaxKOps == 5

MaxUpd == 2

KeyLens == {3, 4, 255, 256}

CustomLens == {0, 125, 127, 128}

OutLens == {32, 8191, 8192}

KeyOf(n) == Pat(n, 7)

CustomOf(n) == Pat(n, 11)

Datas == {<<200>>, <<201, 202>>}

\* the OSSL_PARAM arrays of the calls: one parameter, or a key and a
\* customization string
ParamSets ==
    {NoParams}
    \cup {[NoParams EXCEPT !.has = {"xof"}, !.xof = x] : x \in {0, 1}}
    \cup {[NoParams EXCEPT !.has = {"outlen"}, !.outlen = n] : n \in OutLens}
    \cup {[NoParams EXCEPT !.has = {"key"}, !.key = KeyOf(n)] : n \in KeyLens}
    \cup {[NoParams EXCEPT !.has = {"custom"}, !.custom = CustomOf(n)] : n \in CustomLens}
    \cup {[NoParams EXCEPT !.has = {"key", "custom"}, !.key = KeyOf(n),
                           !.custom = CustomOf(m)] : n \in KeyLens, m \in CustomLens}
    \cup {[has |-> {"xof", "outlen", "key", "custom"}, xof |-> 1, outlen |-> 32,
           key |-> KeyOf(4), custom |-> CustomOf(128)]}

SivOff ==
    /\ siv = [c \in Ctx |-> NewCtx(1, ZeroBlock)]
    /\ little = TRUE
    /\ out = <<>>
    /\ tagbuf = ZeroBlock
    /\ last = NoCall
    /\ hist = [c \in Ctx |-> FreshHist]
    /\ nops = 0
    /\ rt = NoRt
    /\ cp = NoCp
    /\ calc = NoCalc

InitKMAC ==
    /\ SivOff
    /\ \E w \in {KMAC_MAX_BLOCKSIZE, KMAC_MIN_BLOCKSIZE} : kctx = kmac_new(w)
    /\ md_ctx = FreshMd
    /\ mac = NoMac
    /\ klast = NoKCall
    /\ kg = FreshKg
    /\ kops = 0
    /\ fork = NoFork

KCall(op, ret, p, ub) ==
    /\ kops < MaxKOps
    /\ md_ctx.st # "crashed"
    /\ kops' = kops + 1
    /\ klast' = [op |-> op, ret |-> ret, keyBad |-> KeyBad(p),
                 customBad |-> CustomBad(p), has |-> p.has, ub |-> ub]
    /\ UNCHANGED <<sivvars, fork, calc>>

KmacSetParams ==
    \E p \in ParamSets :
        LET r      == kmac_set_ctx_params(kctx, p)
            stored == "key" \in p.has /\ ~KeyBad(p)
        IN  /\ KCall("set_ctx_params", r.ret, p, "kept")
            /\ kctx' = r.k
            /\ kg' = [kg EXCEPT
                      !.keySet = @ \/ stored,
                      !.keyRejected = @ \/ KeyBad(p),
                      !.K = IF stored THEN p.key ELSE @,
                      !.S = IF "custom" \in p.has /\ r.ret = 1 THEN p.custom ELSE @]
            /\ UNCHANGED <<md_ctx, mac>>

\* init's bytepad writes more than its local buffer holds
InitOverruns(k) ==
    /\ k.key_len # 0
    /\ PadSize(2 + Len(kmac_string) + (IF k.custom_len = 0 THEN 2 ELSE k.custom_len),
               k.w, k.w) > KMAC_MAX_BLOCKSIZE

KmacInit ==
    \E ub \in Outcomes :
        LET r == kmac_init(kctx, md_ctx, ub) IN
        /\ ub = "kept" \/ InitOverruns(kctx)
        /\ KCall("init", r.ret, NoParams, ub)
        /\ kctx' = r.k
        /\ md_ctx' = r.md
        /\ kg' = IF r.ret = 1
                 THEN [kg EXCEPT !.initK = kg.K, !.initS = kg.S, !.msg = <<>>,
                                 !.nupd = 0, !.inBounds = ~InitOverruns(kctx)]
                 ELSE kg
        /\ UNCHANGED mac

KmacUpdate ==
    \E data \in Datas :
        LET r == kmac_update(md_ctx, data) IN
        /\ md_ctx.st = "absorbing"
        /\ kg.nupd < MaxUpd
        /\ KCall("update", r.ret, NoParams, "kept")
        /\ md_ctx' = r.md
        /\ kg' = [kg EXCEPT !.msg = @ \o data, !.nupd = @ + 1]
        /\ UNCHANGED <<kctx, mac>>

\* final's right_encode writes more than its local buffer holds
FinalOverruns(k) ==
    right_encode(IF k.xof_mode # 0 THEN 0 ELSE k.out_len * 8).out_len
        > KMAC_MAX_ENCODED_HEADER_LEN

KmacFinal ==
    \E ub \in Outcomes :
        LET r == kmac_final(kctx, md_ctx, ub) IN
        /\ md_ctx.st = "absorbing"
        /\ ub = "kept" \/ FinalOverruns(kctx)
        /\ KCall("final", r.ret, NoParams, ub)
        /\ md_ctx' = r.md
        /\ mac' = [out |-> r.out, written |-> r.written, outl |-> r.outl]
        /\ kg' = [kg EXCEPT !.inBounds = @ /\ ~FinalOverruns(kctx)]
        /\ UNCHANGED kctx

NextKMAC ==
    \/ KmacSetParams
    \/ KmacInit
    \/ KmacUpdate
    \/ KmacFinal

SpecKMAC == InitKMAC /\ [][NextKMAC]_vars

(***************************************************************************)
(* kmac_dup: a context at some point of its life (src, number 1) is        *)
(* duplicated, and then calls are made on either context.  fork.seq[c] is  *)
(* the sequence of calls made on context c since the dup (a call is named  *)
(* by its function and the parameters it carries).  Both contexts run in   *)
(* one build of the library: fork.build is what that build does when a     *)
(* stack buffer is overrun.                                                *)
(***************************************************************************)
MaxFork == 4

Stages == 0..4

\* the context and its sponge after: 0 kmac_new; 1 a key and a customization
\* string set; 2 init; 3 update; 4 final
RECURSIVE Lifecycle(_, _)
Lifecycle(w, n) ==
    IF n = 0 THEN [k |-> kmac_new(w), md |-> FreshMd, mac |-> NoMac]
    ELSE LET b == Lifecycle(w, n - 1) IN
         IF n = 1
         THEN [b EXCEPT !.k = kmac_set_ctx_params(b.k,
                                 [NoParams EXCEPT !.has = {"key", "custom"},
                                                  !.key = KeyOf(4),
                                                  !.custom = CustomOf(125)]).k]
         ELSE IF n = 2
         THEN LET r == kmac_init(b.k, b.md, "kept") IN [b EXCEPT !.k = r.k, !.md = r.md]
         ELSE IF n = 3
         THEN [b EXCEPT !.md = kmac_update(b.md, <<200>>).md]
         ELSE LET r == kmac_final(b.k, b.md, "kept")
              IN  [b EXCEPT !.md = r.md,
                            !.mac = [out |-> r.out, written |-> r.written,
                                     outl |-> r.outl]]

ForkParams ==
    {[NoParams EXCEPT !.has = {"outlen"}, !.outlen = 8192],
     [NoParams EXCEPT !.has = {"key"}, !.key = KeyOf(255)]}

InitDup ==
    /\ SivOff
    /\ kctx = kmac_new(KMAC_MAX_BLOCKSIZE)
    /\ md_ctx = FreshMd
    /\ mac = NoMac
    /\ klast = NoKCall
    /\ kg = FreshKg
    /\ kops = 0
    /\ \E w \in {KMAC_MAX_BLOCKSIZE, KMAC_MIN_BLOCKSIZE}, n \in Stages,
          ub \in Outcomes :
          LET b == Lifecycle(w, n) IN
          fork = [pc  |-> "src",
                  build |-> ub,
                  k   |-> <<b.k, b.k>>,
                  md  |-> <<b.md, FreshMd>>,
                  mac |-> <<b.mac, NoMac>>,
                  seq |-> <<(<<>>), (<<>>)>>,
                  last |-> [op |-> "new", c |-> 1, ret |-> 1]]

ForkFrame == UNCHANGED <<sivvars, kctx, md_ctx, mac, klast, kg, kops, calc>>

ForkDup ==
    \E fail \in BOOLEAN :
        LET r == kmac_dup(fork.k[1], fork.md[1], fail) IN
        /\ fork.pc = "src"
        /\ fork' = [fork EXCEPT !.pc = IF r.ret = 1 THEN "pair" ELSE "failed",
                                !.k[2] = r.k, !.md[2] = r.md,
                                !.last = [op |-> "dup", c |-> 1, ret |-> r.ret]]
        /\ ForkFrame

\* a call on context c of the pair; a write outside a stack buffer may end
\* the process, and with it both contexts
ForkCall(c, call, k, md, m, ret) ==
    /\ fork.pc = "pair"
    /\ Len(fork.seq[1]) + Len(fork.seq[2]) < MaxFork
    /\ fork' = [fork EXCEPT !.pc = IF md.st = "crashed" THEN "crashed" ELSE "pair",
                            !.k[c] = k, !.md[c] = md, !.mac[c] = m,
                            !.seq[c] = Append(@, call),
                            !.last = [op |-> call.op, c |-> c, ret |-> ret]]
    /\ ForkFrame

ForkSetParams(c) ==
    \E p \in ForkParams :
        LET r == kmac_set_ctx_params(fork.k[c], p) IN
        ForkCall(c, [op |-> "set_ctx_params", p |-> p.has], r.k, fork.md[c],
                 fork.mac[c], r.ret)

ForkInit(c) ==
    LET r == kmac_init(fork.k[c], fork.md[c], fork.build) IN
    ForkCall(c, [op |-> "init", p |-> {}], r.k, r.md, fork.mac[c], r.ret)

ForkUpdate(c) ==
    LET r == kmac_update(fork.md[c], <<201, 202>>) IN
    /\ fork.md[c].st = "absorbing"
    /\ ForkCall(c, [op |-> "update", p |-> {}], fork.k[c], r.md, fork.mac[c],
                r.ret)

ForkFinal(c) ==
    LET r == kmac_final(fork.k[c], fork.md[c], fork.build) IN
    /\ fork.md[c].st = "absorbing"
    /\ ForkCall(c, [op |-> "final", p |-> {}], fork.k[c], r.md,
                [out |-> r.out, written |-> r.written, outl |-> r.outl], r.ret)

NextDup ==
    \/ ForkDup
    \/ \E c \in {1, 2} : ForkSetParams(c)
    \/ \E c \in {1, 2} : ForkInit(c)
    \/ \E c \in {1, 2} : ForkUpdate(c)
    \/ \E c \in {1, 2} : ForkFinal(c)

SpecDup == InitDup /\ [][NextDup]_vars

(***************************************************************************)
(* CRYPTO_siv128_copy_ctx: a context with some history (dst, number 1) is  *)
(* overwritten with a copy of another (src, number 2), and then calls are  *)
(* made on either.  cp.seq[c] is the sequence of calls made on context c   *)
(* since the copy and cp.rets[c] their return values; cp.out[c] and        *)
(* cp.tagbuf[c] are the buffers the caller uses with context c.            *)
(***************************************************************************)
MaxCopy == 4

\* dst before the copy: 0 as CRYPTO_siv128_new left it; 1 after an aad call;
\* 2 after an encrypt call
DstHistory(k, t, n) ==
    IF n = 0 THEN NewCtx(k, t)
    ELSE IF n = 1 THEN CRYPTO_siv128_aad(NewCtx(k, t), <<16, 17, 18>>, "none", TRUE).s
    ELSE CRYPTO_siv128_encrypt(NewCtx(k, t), Pat(15, 1), <<>>, "none", TRUE).s

InitCopy ==
    /\ siv = [c \in Ctx |-> NewCtx(1, ZeroBlock)]
    /\ little = TRUE
    /\ out = <<>>
    /\ tagbuf = ZeroBlock
    /\ last = NoCall
    /\ hist = [c \in Ctx |-> FreshHist]
    /\ nops = 0
    /\ rt = NoRt
    /\ KmacOff
    /\ \E k \in Keys, t \in UninitTags, n \in 0..2, m \in 0..1 :
          cp = [pc     |-> "src",
                s      |-> <<DstHistory(k, t, n), DstHistory(2, ZeroBlock, m)>>,
                out    |-> <<(<<>>), (<<>>)>>,
                tagbuf |-> <<ZeroBlock, ZeroBlock>>,
                seq    |-> <<(<<>>), (<<>>)>>,
                rets   |-> <<(<<>>), (<<>>)>>,
                alike  |-> FALSE,
                c      |-> 0]

CopyFrame ==
    UNCHANGED <<siv, little, out, tagbuf, last, hist, nops, rt, kmacvars, calc>>

\* alike: at the copy, dst's tag, final_ret and crypto_ok were those of src
CopyCopy ==
    \E fail \in {"none", "ctr", "dup"} :
        LET r == CRYPTO_siv128_copy_ctx(cp.s[1], cp.s[2], fail) IN
        /\ cp.pc = "src"
        /\ cp' = [cp EXCEPT !.pc = IF r.ret = 1 THEN "pair" ELSE "failed",
                            !.s[1] = r.s,
                            !.alike = /\ cp.s[1].tag = cp.s[2].tag
                                      /\ cp.s[1].final_ret = cp.s[2].final_ret
                                      /\ cp.s[1].crypto_ok = cp.s[2].crypto_ok]
        /\ CopyFrame

CopyCall(c, call, s2, o, tb, ret) ==
    /\ cp.pc = "pair"
    /\ Len(cp.seq[1]) + Len(cp.seq[2]) < MaxCopy
    /\ cp' = [cp EXCEPT !.s[c] = s2, !.out[c] = o, !.tagbuf[c] = tb,
                        !.seq[c] = Append(@, call), !.rets[c] = Append(@, ret),
                        !.c = c]
    /\ CopyFrame

CopyAad(c) ==
    LET r == CRYPTO_siv128_aad(cp.s[c], <<16, 17, 18>>, "none", little) IN
    CopyCall(c, "aad", r.s, cp.out[c], cp.tagbuf[c], r.ret)

CopySetTag(c) ==
    LET r == CRYPTO_siv128_set_tag(cp.s[c], Fill(SIV_LEN, 170)) IN
    CopyCall(c, "set_tag", r.s, cp.out[c], cp.tagbuf[c], r.ret)

CopyEncrypt(c) ==
    LET r == CRYPTO_siv128_encrypt(cp.s[c], Pat(15, 1), cp.out[c], "none", little) IN
    CopyCall(c, "encrypt", r.s, r.out, cp.tagbuf[c], r.ret)

CopyDecrypt(c) ==
    LET r == CRYPTO_siv128_decrypt(cp.s[c], Pat(15, 1), cp.out[c], "none", little) IN
    CopyCall(c, "decrypt", r.s, r.out, cp.tagbuf[c], r.ret)

CopyGetTag(c) ==
    LET r == CRYPTO_siv128_get_tag(cp.s[c], cp.tagbuf[c], SIV_LEN) IN
    CopyCall(c, "get_tag", cp.s[c], cp.out[c], r.buf, r.ret)

CopyFinish(c) ==
    CopyCall(c, "finish", cp.s[c], cp.out[c], cp.tagbuf[c],
             CRYPTO_siv128_finish(cp.s[c]))

NextCopy ==
    \/ CopyCopy
    \/ \E c \in Ctx : CopyAad(c)
    \/ \E c \in Ctx : CopySetTag(c)
    \/ \E c \in Ctx : CopyEncrypt(c)
    \/ \E c \in Ctx : CopyDecrypt(c)
    \/ \E c \in Ctx : CopyGetTag(c)
    \/ \E c \in Ctx : CopyFinish(c)

SpecCopy == InitCopy /\ [][NextCopy]_vars

(***************************************************************************)
(* Properties of the SIV machine                                           *)
(***************************************************************************)
\* this step is a call of op on context c
Calls(ops, c) == nops' = nops + 1 /\ last'.op \in ops /\ last'.c = c

CryptoOps == {"encrypt", "decrypt"}

\* the call left D, tag, final_ret and the caller's buffer as they were
CryptoFrame(c) ==
    /\ siv'[c].d = siv[c].d
    /\ siv'[c].tag = siv[c].tag
    /\ siv'[c].final_ret = siv[c].final_ret
    /\ out' = out

\* C1 as stated: once encrypt or decrypt has been called after init, every
\* further encrypt or decrypt call on the context returns 0 and leaves D,
\* tag, final_ret and the output buffer unchanged.
C1_OneShotAfterAnyCall ==
    [][\A c \in Ctx :
          Calls(CryptoOps, c) /\ hist[c].called
              => last'.ret = 0 /\ CryptoFrame(c)]_sivvars

\* C1 amended: the same, for a context on which neither cleanup nor speed
\* has been called since its last successful init.
C1_OneShotUntilReset ==
    [][\A c \in Ctx :
          Calls(CryptoOps, c) /\ Spent(hist[c])
              => last'.ret = 0 /\ CryptoFrame(c)]_sivvars

C1_Witness ==
    /\ last.op \in CryptoOps /\ last.spent /\ last.ret = 0
    /\ Live(siv[last.c])

Candidate(s, inp) == siv128_do_encrypt(s.cipher_ctx, inp, ClearCounterBits(s.tag))

Recomputed(s, inp, le) == siv128_do_s2v_p(s, Candidate(s, inp), "none", le).q

\* C4: when decrypt has recomputed S2V over the recovered plaintext and it
\* differs from the supplied tag, decrypt returns 0, the len bytes of the
\* output buffer are zero and final_ret is as it was.
C4_MismatchScrubs ==
    [][\A c \in Ctx :
          /\ Calls({"decrypt"}, c)
          /\ ~BudgetSpent(siv[c])
          /\ last'.fail = "none"
          /\ Recomputed(siv[c], last'.inp, little) # siv[c].tag
          => /\ last'.ret = 0
             /\ out' = Fill(Len(last'.inp), 0)
             /\ siv'[c].final_ret = siv[c].final_ret]_sivvars

C4_Witness ==
    /\ last.op = "decrypt" /\ last.ran /\ last.fail = "none" /\ ~last.done
    /\ Len(last.inp) > 0
    /\ out = Fill(Len(last.inp), 0)
    /\ last.ret = 0

\* C5 as stated: whenever decrypt returns failure, for whatever reason, the
\* call does not leave the CTR-decrypted candidate plaintext in the output
\* buffer.
C5_FailedDecryptLeavesNoCandidate ==
    [][\A c \in Ctx :
          Calls({"decrypt"}, c) /\ ~last'.done /\ Len(last'.inp) > 0
              => /\ last'.ret = 0
                 /\ ~(out' = Candidate(siv[c], last'.inp) /\ out' # out)]_sivvars

\* C6: finish returns undecided right after a successful init, and returns
\* success only if an encrypt or decrypt call ran to its end since the last
\* successful init of the context.
C6_FinalRet ==
    \A c \in Ctx :
        /\ last.op = "init" /\ last.c = c /\ last.ret = 1
               => CRYPTO_siv128_finish(siv[c]) = Undecided
        /\ CRYPTO_siv128_finish(siv[c]) = Success => hist[c].okSince

C6_Witness ==
    /\ last.op = "finish" /\ last.ret = Success /\ hist[last.c].okSince
    /\ last.c = 1

\* C3 as stated: after the round trip, decrypt has returned success (a
\* non-zero value), the output is the plaintext and final_ret is success;
\* for every key, AAD sequence and plaintext, the empty one included.
C3_RoundTrip ==
    rt.pc = "done"
        => /\ last.ret # 0
           /\ out = rt.P
           /\ CRYPTO_siv128_finish(siv[2]) = Success

\* The round trip recovers the plaintext and sets final_ret; the return
\* value is the length.
RtRecovers ==
    rt.pc = "done"
        => /\ last.ret = Len(rt.P) /\ last.done
           /\ out = rt.P
           /\ CRYPTO_siv128_finish(siv[2]) = Success

(***************************************************************************)
(* Properties of the KMAC machine                                          *)
(***************************************************************************)
KCalls(op) == kops' = kops + 1 /\ klast'.op = op

\* SP 800-185, section 2.3: the encoders as the standard defines them
RECURSIVE RefBytes(_)
RefBytes(x) == IF x < 256 THEN <<x>> ELSE RefBytes(x \div 256) \o <<x % 256>>

RefLeftEncode(x) == <<Len(RefBytes(x))>> \o RefBytes(x)

RefRightEncode(x) == RefBytes(x) \o <<Len(RefBytes(x))>>

RefEncodeString(S) == RefLeftEncode(8 * Len(S)) \o S

RefBytepad(X, w) ==
    LET z == RefLeftEncode(w) \o X IN z \o Fill((w - (Len(z) % w)) % w, 0)

\* what SP 800-185 absorbs before the message for key K and customization S
RefPrefix(K, S, w) ==
    RefBytepad(RefEncodeString(<<75, 77, 65, 67>>) \o RefEncodeString(S), w)
        \o RefBytepad(RefEncodeString(K), w)

\* L of the final call on context k
RefL(k) == IF k.xof_mode # 0 THEN 0 ELSE 8 * k.out_len

C8_RejectLeavesStored ==
    [][KCalls("set_ctx_params")
          => IF klast'.keyBad \/ klast'.customBad
             THEN /\ klast'.ret = 0
                  /\ kctx'.key = kctx.key /\ kctx'.key_len = kctx.key_len
                  /\ kctx'.custom = kctx.custom /\ kctx'.custom_len = kctx.custom_len
             ELSE klast'.ret = 1]_vars

\* The parameter that is rejected is not stored, and in-range ones are
\* accepted: a rejected key leaves key and custom as they were, a rejected
\* customization string leaves custom as it was.
SetParamsRejected ==
    [][KCalls("set_ctx_params")
          => /\ klast'.ret = (IF klast'.keyBad \/ klast'.customBad THEN 0 ELSE 1)
             /\ klast'.keyBad
                    => /\ kctx'.key = kctx.key /\ kctx'.key_len = kctx.key_len
                       /\ kctx'.custom = kctx.custom
                       /\ kctx'.custom_len = kctx.custom_len
             /\ klast'.customBad
                    => kctx'.custom = kctx.custom /\ kctx'.custom_len = kctx.custom_len]_vars

\* C9 as stated: at final, the bytes absorbed since init are
\* bytepad(encode_string("KMAC") || encode_string(S), w) ||
\* bytepad(encode_string(K), w) || X1 || ... || Xn || right_encode(L) for the
\* K and S in force at init, and final writes and reports out_len bytes.
C9_AbsorbedFraming ==
    [][KCalls("final")
          => /\ klast'.ret = 1
             /\ md_ctx'.absorbed = RefPrefix(kg.initK, kg.initS, kctx.w)
                                       \o kg.msg \o RefRightEncode(RefL(kctx))
             /\ mac'.written = kctx.out_len
             /\ mac'.outl = kctx.out_len]_vars

\* The framing of C9 holds for the runs in which init's and final's local
\* buffers were not overrun.
FramingInBounds ==
    [][KCalls("final") /\ kg.inBounds /\ ~FinalOverruns(kctx)
          => /\ klast'.ret = 1
             /\ md_ctx'.absorbed = RefPrefix(kg.initK, kg.initS, kctx.w)
                                       \o kg.msg \o RefRightEncode(RefL(kctx))
             /\ mac'.written = kctx.out_len
             /\ mac'.outl = kctx.out_len]_vars

\* C10 as stated: between init and final, a set_ctx_params call with a key
\* or a customization string leaves the sponge as it is, and final appends
\* right_encode(L) for the out_len and xof then in the context, whatever was
\* set since init, and writes out_len bytes.
C10_LateParams ==
    [][/\ (KCalls("set_ctx_params") /\ md_ctx.st = "absorbing")
              => md_ctx' = md_ctx
       /\ KCalls("final")
              => /\ md_ctx'.absorbed = md_ctx.absorbed \o RefRightEncode(RefL(kctx))
                 /\ mac'.out = md_ctx'.absorbed
                 /\ mac'.written = kctx.out_len]_vars

\* The late-parameter rule of C10 holds when final's buffer is not overrun.
LateParamsInBounds ==
    [][/\ (KCalls("set_ctx_params") /\ md_ctx.st = "absorbing")
              => md_ctx' = md_ctx
       /\ (KCalls("final") /\ ~FinalOverruns(kctx))
              => /\ md_ctx'.absorbed = md_ctx.absorbed \o RefRightEncode(RefL(kctx))
                 /\ mac'.out = md_ctx'.absorbed
                 /\ mac'.written = kctx.out_len]_vars

(***************************************************************************)
(* Properties of kmac_dup                                                  *)
(***************************************************************************)
\* the copy has the source's sponge, encoded key and customization string,
\* out_len and xof_mode
DupCopies ==
    fork.pc # "off" /\ fork.last.op = "dup" /\ fork.last.ret = 1
        => fork.k[2] = fork.k[1] /\ fork.md[2] = fork.md[1]

\* a call on one context leaves the other as it is
DupIndependent ==
    \A c \in {1, 2} :
        fork.pc = "pair" /\ fork'.pc # "off" /\ fork'.last.c = c
        /\ Len(fork'.seq[c]) = Len(fork.seq[c]) + 1
            => /\ fork'.k[3 - c] = fork.k[3 - c]
               /\ fork'.md[3 - c] = fork.md[3 - c]
               /\ fork'.mac[3 - c] = fork.mac[3 - c]

\* the same calls made on both have given the same context, sponge and output
DupSameRun ==
    fork.pc \in {"pair", "crashed"} /\ fork.seq[1] = fork.seq[2]
        => /\ fork.k[1] = fork.k[2]
           /\ fork.md[1] = fork.md[2]
           /\ (\E i \in 1..Len(fork.seq[1]) : fork.seq[1][i].op = "final")
                  => fork.mac[1] = fork.mac[2]

CopyIndependent ==
    \A c \in Ctx :
        cp.pc = "pair" /\ cp'.pc = "pair" /\ Len(cp'.seq[c]) = Len(cp.seq[c]) + 1
            => /\ cp'.s[3 - c] = cp.s[3 - c]
               /\ cp'.out[3 - c] = cp.out[3 - c]
               /\ cp'.tagbuf[3 - c] = cp.tagbuf[3 - c]

\* the same calls made on both have given the same return values, tags and
\* outputs
CopySameRun ==
    cp.pc = "pair" /\ cp.seq[1] = cp.seq[2]
        => /\ cp.rets[1] = cp.rets[2]
           /\ cp.out[1] = cp.out[2]
           /\ cp.tagbuf[1] = cp.tagbuf[2]

\* C12 as stated: after a successful copy_ctx(dst, src), whatever dst's
\* history, the same sequence of aad/set_tag/encrypt/decrypt/get_tag/finish
\* calls on dst and on src gives the same return values, tags and outputs,
\* and calls on one do not change the other.
C12_CopyForks ==
    [][CopyIndependent /\ CopySameRun']_vars

\* The copy is a fork when dst's tag, final_ret and crypto_ok, which
\* copy_ctx leaves alone, were those of src.
CopyForksAlike ==
    [][CopyIndependent /\ (cp'.pc = "pair" /\ cp'.alike => CopySameRun')]_vars

(***************************************************************************)
(* Properties of S2V.  The reference is RFC 5297, section 2.4, on blocks   *)
(* taken as strings of 128 bits, most significant first.                   *)
(***************************************************************************)
\* the sequence f with every element worked out
RefSeq(f) == SubSeq(f, 1, Len(f))

RefBits(b) ==
    RefSeq([i \in 1..(8 * Len(b)) |->
              (b[((i - 1) \div 8) + 1] \div (2 ^ (7 - ((i - 1) % 8)))) % 2])

RefByteOf(bits, j) ==
    128 * bits[8 * j - 7] + 64 * bits[8 * j - 6] + 32 * bits[8 * j - 5]
      + 16 * bits[8 * j - 4] + 8 * bits[8 * j - 3] + 4 * bits[8 * j - 2]
      + 2 * bits[8 * j - 1] + bits[8 * j]

RefBlock(bits) == RefSeq([j \in 1..(Len(bits) \div 8) |-> RefByteOf(bits, j)])

RefXorBits(x, y) == RefSeq([i \in 1..Len(x) |-> (x[i] + y[i]) % 2])

\* 0^120 || 10000111
RefR128 == [i \in 1..128 |-> IF i \in {121, 126, 127, 128} THEN 1 ELSE 0]

\* dbl(S): S << 1, xored with 0^120 10000111 if the first bit of S is 1
RefDbl(b) ==
    LET S     == RefBits(b)
        shift == RefSeq([i \in 1..128 |-> IF i < 128 THEN S[i + 1] ELSE 0])
    IN  RefBlock(IF S[1] = 1 THEN RefXorBits(shift, RefR128) ELSE shift)

RefXor(x, y) == RefBlock(RefXorBits(RefBits(x), RefBits(y)))

\* D after the segments as[1..n]
RECURSIVE RefD(_, _, _)
RefD(k, as, n) ==
    IF n = 0 THEN RefSeq(CMAC(k, ZeroBlock))
    ELSE RefXor(RefDbl(RefD(k, as, n - 1)), RefSeq(CMAC(k, as[n])))

\* A xorend B for Len(A) >= Len(B), and pad(X) for Len(X) < 16
RefXorEnd(A, B) ==
    SubSeq(A, 1, Len(A) - Len(B)) \o RefXor(SubSeq(A, Len(A) - Len(B) + 1, Len(A)), B)

RefPad(X) == X \o <<128>> \o Fill(15 - Len(X), 0)

RefS2V(k, as, P) ==
    LET D == RefD(k, as, Len(as)) IN
    IF Len(P) >= 16 THEN CMAC(k, RefXorEnd(P, D))
    ELSE CMAC(k, RefXor(RefDbl(D), RefPad(P)))

\* C13: a context that was initialised, absorbed the segments A1..An with n
\* aad calls, each adding one doubling and one xor to D, and encrypted P,
\* holds as its tag the RFC 5297 S2V of A1..An and P under its key, on a
\* little-endian and on a big-endian host.
C13_TagIsS2V ==
    /\ rt.pc = "aad1" => siv[1].d = RefD(siv[1].mac_ctx_init, rt.aads, rt.i - 1)
    /\ rt.pc \in {"get", "aad2", "dec", "done"} =>
          siv[1].tag = RefS2V(siv[1].mac_ctx_init, rt.aads, rt.P)

C13_Witness ==
    /\ rt.pc = "get" /\ last.op = "encrypt" /\ last.ret = Len(rt.P)
    /\ Len(rt.aads) = MaxAad /\ rt.aads[1] # rt.aads[2]
    /\ Len(rt.P) > SIV_LEN
    /\ siv[1].tag = RefS2V(siv[1].mac_ctx_init, rt.aads, rt.P)

(***************************************************************************)
(* siv128_dbl on its own: a block is doubled MaxDbl times on a             *)
(* little-endian or a big-endian host.  The blocks to start from are the   *)
(* zero block, the blocks with one bit set at the top or the bottom of a   *)
(* byte, the block of all ones and a block of mixed bytes.                 *)
(***************************************************************************)
MaxDbl == 8

Unit(i, v) == [j \in 1..SIV_LEN |-> IF j = i THEN v ELSE 0]

DblBlocks ==
    {ZeroBlock, Fill(SIV_LEN, 255), Pat(SIV_LEN, 3)}
      \cup {Unit(i, v) : i \in 1..SIV_LEN, v \in {1, 128}}

InitDbl ==
    /\ siv = [c \in Ctx |-> NewCtx(1, ZeroBlock)]
    /\ little \in BOOLEAN
    /\ out = <<>>
    /\ tagbuf = ZeroBlock
    /\ last = NoCall
    /\ hist = [c \in Ctx |-> FreshHist]
    /\ nops = 0
    /\ rt = NoRt
    /\ cp = NoCp
    /\ kctx = kmac_new(KMAC_MAX_BLOCKSIZE)
    /\ md_ctx = FreshMd
    /\ mac = NoMac
    /\ klast = NoKCall
    /\ kg = FreshKg
    /\ kops = 0
    /\ fork = NoFork
    /\ \E b \in DblBlocks : calc = [fn |-> "dbl", in |-> b, b |-> b, n |-> 0]

\* siv128_dbl(&b)
DblStep ==
    /\ calc.fn = "dbl" /\ calc.n < MaxDbl
    /\ calc' = [fn |-> "dbl", in |-> calc.b, b |-> siv128_dbl(calc.b, little),
                n |-> calc.n + 1]
    /\ UNCHANGED <<sivvars, kmacvars>>

NextDbl == DblStep

SpecDbl == InitDbl /\ [][NextDbl]_vars

(***************************************************************************)
(* Properties of siv128_dbl                                                *)
(***************************************************************************)
\* C14: siv128_dbl maps a block B, read as a big-endian 128-bit number, to
\* (B << 1) mod 2^128, xored with 0x87 if the top bit of B is set; so the
\* zero block doubles to the zero block, the top bit of the low word
\* becomes the lowest bit of the high word, and a little-endian and a
\* big-endian host give the same block.
C14_Doubling ==
    (calc.fn = "dbl" /\ calc.n > 0) =>
        /\ calc.b = RefDbl(calc.in)
        /\ siv128_dbl(calc.in, TRUE) = siv128_dbl(calc.in, FALSE)
        /\ calc.in = ZeroBlock => calc.b = ZeroBlock
        /\ calc.b[8] % 2 = calc.in[9] \div 128

C14_Witness ==
    /\ calc.fn = "dbl" /\ calc.n > 0 /\ little
    /\ calc.in[1] >= 128 /\ calc.in[9] >= 128
    /\ calc.b = RefDbl(calc.in)
    /\ calc.b[8] % 2 = 1

(***************************************************************************)
(* The encoders of kmac_prov.c on their own: one call of encode_string,    *)
(* right_encode, bytepad or the key branch of kmac_set_ctx_params, on an   *)
(* input drawn from the sets below.                                        *)
(***************************************************************************)
\* the longest first input given to bytepad
MaxPadIn == 340

EncStrings ==
    {Pat(n, 7) : n \in 0..KMAC_MAX_KEY} \cup {Pat(n, 11) : n \in 0..KMAC_MAX_CUSTOM}
      \cup {<<75, 77, 65, 67>>}

RightInputs ==
    {0, 1, 255, 256, 8 * 32, 8 * 64, 65535, 65536, 8 * 8192, 2 ^ 24 - 1, 2 ^ 24,
     2147483647}

InitEnc == SivOff /\ KmacOff

EncCall(c) == calc.fn = "off" /\ calc' = c /\ UNCHANGED <<sivvars, kmacvars>>

EncodeString ==
    \E in \in EncStrings :
        LET r == encode_string(in) IN
        EncCall([fn |-> "encode_string", in |-> in, ret |-> r.ret, out |-> r.out,
                 out_len |-> r.out_len])

RightEncode ==
    \E x \in RightInputs :
        LET r == right_encode(x) IN
        EncCall([fn |-> "right_encode", x |-> x, ret |-> r.ret, out |-> r.out,
                 out_len |-> r.out_len])

Bytepad ==
    \E w \in {KMAC_MAX_BLOCKSIZE, KMAC_MIN_BLOCKSIZE}, n \in 0..MaxPadIn, m \in {0, 3} :
        LET r == bytepad(Pat(n, 5), Pat(m, 9), w) IN
        EncCall([fn |-> "bytepad", w |-> w, X |-> Pat(n, 5) \o Pat(m, 9),
                 ret |-> r.ret, out |-> r.out, out_len |-> r.out_len])

\* kmac_set_ctx_params with a key alone, on a new context: X is what
\* kmac_bytepad_encode_key hands to bytepad, out the stored key
EncodeKey ==
    \E w \in {KMAC_MAX_BLOCKSIZE, KMAC_MIN_BLOCKSIZE}, n \in 3..(KMAC_MAX_KEY + 1) :
        LET p == [NoParams EXCEPT !.has = {"key"}, !.key = KeyOf(n)]
            r == kmac_set_ctx_params(kmac_new(w), p)
        IN  EncCall([fn |-> "key", w |-> w, n |-> n, X |-> encode_string(KeyOf(n)).out,
                     ret |-> r.ret, out |-> r.k.key, out_len |-> r.k.key_len])

NextEnc == EncodeString \/ RightEncode \/ Bytepad \/ EncodeKey

SpecEnc == InitEnc /\ [][NextEnc]_vars

(***************************************************************************)
(* Properties of the encoders                                              *)
(***************************************************************************)
\* C15: encode_string of a string S of 0 to 255 bytes gives n, the n bytes
\* of 8 * Len(S) most significant first, then S, with n the least number of
\* bytes that holds 8 * Len(S) and at least 1; right_encode of x gives the
\* bytes of x most significant first, then their number.  So "KMAC" encodes to
\* 01 20 4B 4D 41 43, the empty string to 01 00, and right_encode(0) is 00 01.
C15_Encoders ==
    /\ calc.fn = "encode_string" =>
          /\ calc.ret = 1
          /\ calc.out = RefEncodeString(calc.in)
          /\ calc.out_len = Len(calc.out)
          /\ calc.out[1] >= 1
          /\ calc.out[1] > 1 => calc.out[2] # 0
          /\ calc.in = <<75, 77, 65, 67>> => calc.out = <<1, 32, 75, 77, 65, 67>>
          /\ calc.in = <<>> => calc.out = <<1, 0>>
    /\ calc.fn = "right_encode" =>
          /\ calc.ret = 1
          /\ calc.out = RefRightEncode(calc.x)
          /\ calc.out_len = Len(calc.out)
          /\ calc.x = 0 => calc.out = <<0, 1>>

C15_Witness ==
    /\ calc.fn = "encode_string" /\ Len(calc.in) = KMAC_MAX_KEY
    /\ SubSeq(calc.out, 1, 3) = <<2, 7, 248>>
    /\ SubSeq(calc.out, 4, Len(calc.out)) = calc.in

\* C16: bytepad gives 01 w, then X, then only zeros, in all the least
\* multiple of w that is at least Len(X) + 2; the key that
\* kmac_set_ctx_params stores for a key of 4 to 255 bytes has a length that
\* is w or 2 * w, for w = 168 and w = 136.
C16_Bytepad ==
    /\ calc.fn \in {"bytepad", "key"} /\ calc.ret = 1 =>
          LET n == Len(calc.X) + 2 IN
          /\ Len(calc.out) = calc.out_len
          /\ SubSeq(calc.out, 1, 2) = <<1, calc.w>>
          /\ SubSeq(calc.out, 3, n) = calc.X
          /\ \A i \in (n + 1)..calc.out_len : calc.out[i] = 0
          /\ calc.out_len % calc.w = 0
          /\ calc.out_len >= n
          /\ calc.out_len - calc.w < n
    /\ calc.fn = "key" =>
          /\ calc.ret = 1 <=> calc.n \in 4..KMAC_MAX_KEY
          /\ calc.ret = 1 => calc.out_len \in {calc.w, 2 * calc.w}

C16_Witness ==
    /\ calc.fn = "key" /\ calc.ret = 1
    /\ calc.n = KMAC_MAX_KEY /\ calc.w = KMAC_MIN_BLOCKSIZE
    /\ calc.out_len = 2 * calc.w
    /\ calc.out[calc.out_len] = 0

(***************************************************************************)
(* Properties of the one-shot budget                                       *)
(***************************************************************************)
\* what the calls may do to crypto_ok: init, cleanup and speed set it to 1,
\* speed(1) sets it to -1, encrypt and decrypt take 1 off, nothing else
\* writes it
BudgetWrites(c) ==
    /\ siv'[c].crypto_ok > siv[c].crypto_ok => last'.op \in {"init", "cleanup", "speed"}
    /\ siv'[c].crypto_ok < siv[c].crypto_ok =>
          \/ last'.op \in CryptoOps /\ siv'[c].crypto_ok = siv[c].crypto_ok - 1
          \/ last'.op = "speed" /\ last'.inp = <<1>> /\ siv'[c].crypto_ok = -1

\* C17 as stated: between two inits of a context at most one encrypt or
\* decrypt call gets past the budget check, whatever other calls are made.
C17_OneShotPerInit ==
    [][\A c \in Ctx :
          Calls(CryptoOps, c) /\ hist[c].called => ~last'.ran]_sivvars

\* C17, amended: between two inits of a context at most one encrypt or
\* decrypt call gets past the budget check, provided neither speed nor
\* cleanup is called in between; the budget is raised by init, cleanup and
\* speed only and made negative by speed(1) only.
C17_OneShotUnlessReset ==
    [][\A c \in Ctx :
          /\ Calls(CryptoOps, c) /\ Spent(hist[c]) => ~last'.ran
          /\ nops' = nops + 1 => BudgetWrites(c)]_sivvars

C17_Witness ==
    /\ last.op \in CryptoOps /\ last.spent /\ ~last.ran
    /\ nops = MaxOps
    /\ siv[last.c].crypto_ok = 0

(***************************************************************************)
(* Properties of a rejected set_ctx_params                                 *)
(***************************************************************************)
\* C18 as stated: a set_ctx_params call that returns 0 leaves xof_mode,
\* out_len, the stored key and the stored customization string as they
\* were, also when the call carried parameters that are in range.
C18_RejectIsAtomic ==
    [][KCalls("set_ctx_params") /\ klast'.ret = 0 => kctx' = kctx]_vars

(***************************************************************************)
(* Properties of a failed aad                                              *)
(***************************************************************************)
\* C19 as stated: an aad call that returns 0, a step of its CMAC having
\* failed, leaves D as it was before the call.
C19_FailedAadKeepsD ==
    [][\A c \in Ctx :
          Calls({"aad"}, c) /\ last'.ret = 0 => siv'[c].d = siv[c].d]_sivvars

\* What a failed aad does leave: D doubled once, and everything else in the
\* context as it was.
FailedAadDoublesD ==
    [][\A c \in Ctx :
          Calls({"aad"}, c) /\ last'.ret = 0
              => siv'[c] = [siv[c] EXCEPT !.d = RefDbl(siv[c].d)]]_sivvars

(***************************************************************************)
(* Properties of the tag and the CTR start block                           *)
(***************************************************************************)
\* Q with bit 63 and bit 31 cleared, counting from the least significant
\* bit of the block: the top bits of bytes 8 and 12
RefCounterBlock(Q) ==
    LET b == RefBits(Q)
    IN  RefBlock([i \in 1..128 |-> IF i \in {128 - 63, 128 - 31} THEN 0 ELSE b[i]])

\* C20: encrypt stores the S2V output Q as the tag unmodified, and get_tag
\* returns it; the block CTR starts from is Q with only the top bit of
\* byte 8 and the top bit of byte 12 cleared.  decrypt starts CTR from the
\* supplied tag masked the same way and leaves the stored tag as supplied.
C20_TagAndCounter ==
    /\ rt.pc \in {"get", "aad2"} =>
          /\ siv[1].tag = RefS2V(siv[1].mac_ctx_init, rt.aads, rt.P)
          /\ out = CTR(siv[1].cipher_ctx, RefCounterBlock(siv[1].tag), rt.P)
    /\ rt.pc = "aad2" => tagbuf = siv[1].tag
    /\ rt.pc = "done" =>
          /\ siv[2].tag = tagbuf
          /\ out = CTR(siv[2].cipher_ctx, RefCounterBlock(tagbuf), last.inp)

C20_Witness ==
    /\ rt.pc = "done" /\ last.op = "decrypt" /\ last.ret = Len(rt.P)
    /\ siv[2].tag = tagbuf /\ tagbuf = siv[1].tag
    /\ tagbuf[9] >= 128 /\ tagbuf[13] >= 128
    /\ out = rt.P /\ Len(out) > SIV_LEN
    /\ out # CTR(siv[2].cipher_ctx, tagbuf, last.inp)

(***************************************************************************)
(* Properties of the local buffers of final and init                       *)
(***************************************************************************)
\* C21 as stated: for every out_len set_ctx_params accepts, the suffix final
\* builds with right_encode is at most KMAC_MAX_ENCODED_HEADER_LEN bytes
\* long and so fits encoded_outlen.
C21_SuffixFits ==
    klast.op = "final" =>
        right_encode(RefL(kctx)).out_len <= KMAC_MAX_ENCODED_HEADER_LEN

\* The suffix fits when xof is on or out_len is under 8192, and is one byte
\* too long at 8192.
SuffixFitsUnder8192 ==
    klast.op = "final" =>
        (right_encode(RefL(kctx)).out_len <= KMAC_MAX_ENCODED_HEADER_LEN
            <=> (kctx.xof_mode # 0 \/ kctx.out_len < 8192))

\* C22 as stated: for w = 168 and w = 136 and every customization string
\* set_ctx_params accepts, the prefix init builds with bytepad is one block
\* of w bytes and no longer than the KMAC_MAX_BLOCKSIZE bytes of out.
C22_PrefixOneBlock ==
    klast.op = "init" =>
        LET bp == bytepad(kmac_string, kctx.custom, kctx.w)
        IN  bp.out_len = kctx.w /\ bp.out_len <= KMAC_MAX_BLOCKSIZE

\* The prefix is one block for KMAC128, and for KMAC256 when the
\* customization string is at most 125 bytes long; otherwise it is two
\* blocks of 136 bytes.
PrefixOneBlockUpTo125 ==
    klast.op = "init" =>
        LET bp == bytepad(kmac_string, kctx.custom, kctx.w)
        IN  IF kctx.w = KMAC_MAX_BLOCKSIZE \/ Len(kg.S) <= 125
            THEN bp.out_len = kctx.w
            ELSE bp.out_len = 2 * kctx.w /\ bp.out_len > KMAC_MAX_BLOCKSIZE

(***************************************************************************)
(* kmac_final and the caller's buffer: a context with a key, initialised   *)
(* and updated, is finalised into a buffer of outsize bytes.               *)
(***************************************************************************)
FinalOutLens == {1, 32, 64, 8191}

OutSizes == {0, 31, 32, 64, 8191}

InitFinal ==
    /\ SivOff
    /\ mac = NoMac
    /\ klast = NoKCall
    /\ kg = FreshKg
    /\ kops = 0
    /\ fork = NoFork
    /\ \E w \in {KMAC_MAX_BLOCKSIZE, KMAC_MIN_BLOCKSIZE}, n \in FinalOutLens,
          x \in {0, 1}, c \in {0, 125}, data \in Datas \cup {<<>>} :
          LET p == [has |-> {"xof", "outlen", "key", "custom"}, xof |-> x,
                    outlen |-> n, key |-> KeyOf(4), custom |-> CustomOf(c)]
              i == kmac_init(kmac_set_ctx_params(kmac_new(w), p).k, FreshMd, "kept")
          IN  /\ kctx = i.k
              /\ md_ctx = kmac_update(i.md, data).md

\* kmac_final(vmacctx, out, outl, outsize): outsize is not read
FinalInto ==
    \E outsize \in OutSizes :
        LET r == kmac_final(kctx, md_ctx, "kept") IN
        /\ md_ctx.st = "absorbing"
        /\ KCall("final", r.ret, NoParams, "kept")
        /\ md_ctx' = r.md
        /\ mac' = [out |-> r.out, written |-> r.written, outl |-> r.outl,
                   outsize |-> outsize]
        /\ UNCHANGED <<kctx, kg>>

NextFinal == FinalInto

SpecFinal == InitFinal /\ [][NextFinal]_vars

(***************************************************************************)
(* Properties of kmac_final and the caller's buffer                        *)
(***************************************************************************)
\* C23 as stated: final writes at most outsize bytes into the caller's
\* buffer, and fails without writing when out_len is larger than outsize.
C23_FinalWithinOutsize ==
    klast.op = "final" =>
        /\ mac.written <= mac.outsize
        /\ kctx.out_len > mac.outsize => klast.ret = 0 /\ mac.written = 0

\* What final does: it writes out_len bytes and returns 1 whatever outsize is.
FinalWritesOutLen ==
    klast.op = "final" =>
        klast.ret = 1 /\ mac.written = kctx.out_len /\ mac.outl = kctx.out_len

(***************************************************************************)
(* Properties of what encrypt, decrypt and finish return                   *)
(***************************************************************************)
\* C24 as stated: for every length, 0 included, encrypt and decrypt return 0
\* exactly when the call failed, and a value other than 0 exactly when it
\* ran to its end and set final_ret to success.
C24_ReturnTellsSuccess ==
    last.op \in CryptoOps =>
        /\ last.ret = 0 <=> ~last.done
        /\ last.ret # 0 => siv[last.c].final_ret = Success

\* What the calls return: the length of the input when they ran to their
\* end, having set final_ret to success, and 0 otherwise.
ReturnIsLength ==
    last.op \in CryptoOps =>
        /\ last.ret = (IF last.done THEN Len(last.inp) ELSE 0)
        /\ last.done => siv[last.c].final_ret = Success

\* C25 as stated: when the most recent encrypt or decrypt call on a context
\* returned 0, a finish that follows it does not return success, whatever
\* was called before.  Checked for the finish that follows at once.
C25_FinishAfterFailure ==
    [][\A c \in Ctx :
          /\ Calls({"finish"}, c)
          /\ last.op \in CryptoOps /\ last.c = c /\ last.ret = 0
          => last'.ret # Success]_sivvars

\* finish after a failed call does not return success if no encrypt or
\* decrypt call ran to its end since the last successful init.
FinishAfterOnlyFailures ==
    [][\A c \in Ctx :
          /\ Calls({"finish"}, c)
          /\ last.op \in CryptoOps /\ last.c = c /\ ~last.done
          /\ ~hist[c].okSince
          => last'.ret = Undecided]_sivvars

====
